---- MODULE Spec2Model ----
(***************************************************************************)
(* Model of the job-catalogue reconciliation run (scraper/runner.py) over  *)
(* the DynamoDB catalogue and lease (storage/dynamo.py), in store mode     *)
(* (USE_DDB true).  Each store request (conditional put, query, batch      *)
(* write, delete) is one atomic step of the run that issues it.  The       *)
(* settings object is an argument of run(): lock_key, lock_ttl_sec,        *)
(* max_new_per_run and chunk_upsert_size are read from it, and             *)
(* config.Settings declares none of them, so their values are the caller's.*)
(***************************************************************************)
EXTENDS Integers, Sequences, FiniteSets, TLC

VARIABLES
    now,      \* int(time.time()), the wall clock every process reads
    table,    \* the catalogue: <<company, url>> -> item, for the items present
    lock,     \* the item under ("__lock__", lock_key): {} or {lock_expires_at}
    run,      \* per invocation of run(): its position and its local variables
    env,      \* the deployment: the settings, the sites, what callers pass; fixed
    overrun,  \* history: some run was still inside run() when its lease had expired
    api       \* the client of the query handler: its request and the answer it got

vars == <<now, table, lock, run, env, overrun, api>>

-----------------------------------------------------------------------------
(* Bounds and configuration of the model *)

MaxTime == 2          \* the clock runs over 1..MaxTime
ShortTtl == 1         \* settings.lock_ttl_sec of the deployment with a short lease
chunk_upsert_size == 2 \* settings.chunk_upsert_size
MaxNewCap == 1        \* the configured values of settings.max_new_per_run are 1..MaxNewCap

Runs == {"r1", "r2"}

\* _company_map(): "amazon" stands for the sources read over plain HTTP
\* (apple, amazon, google), "meta" for the browser-backed ones (meta, netflix).
Companies == <<"amazon", "meta">>
JsBacked == {"meta"}

\* The job URLs a source may list, in the order sorted() gives them.
UrlOrder == <<"u1", "u2", "u3">>
URLs == {UrlOrder[n] : n \in 1..Len(UrlOrder)}

-----------------------------------------------------------------------------
(* Helpers on sequences and dicts *)

Range(s) == {s[n] : n \in 1..Len(s)}

\* The sorted list of a set of URLs.
RECURSIVE SortedFrom(_, _)
SortedFrom(S, n) ==
    IF n > Len(UrlOrder) THEN <<>>
    ELSE IF UrlOrder[n] \in S THEN <<UrlOrder[n]>> \o SortedFrom(S, n + 1)
         ELSE SortedFrom(S, n + 1)
Sorted(S) == SortedFrom(S, 1)

\* list(dict.fromkeys(urls)): first occurrences, in order.
RECURSIVE DedupFrom(_, _, _)
DedupFrom(s, n, seen) ==
    IF n > Len(s) THEN <<>>
    ELSE IF s[n] \in seen THEN DedupFrom(s, n + 1, seen)
         ELSE <<s[n]>> \o DedupFrom(s, n + 1, seen \cup {s[n]})
Dedup(s) == DedupFrom(s, 1, {})

\* s[:k]
Take(s, k) == SubSeq(s, 1, IF k < Len(s) THEN k ELSE Len(s))

EmptyDict == [x \in {} |-> 0]
Restrict(f, S) == [x \in DOMAIN f \cap S |-> f[x]]

-----------------------------------------------------------------------------
(* storage/dynamo.py *)

\* ConditionExpression of acquire_lock at time t against the stored lease lk.
LockConditionNoExpiry(lk, t) == lk = {}
LockConditionInverted(lk, t) == lk = {} \/ \A e \in lk : e >= t
LockCondition(lk, t) == lk = {} \/ \A e \in lk : e <= t

\* The lease item acquire_lock writes at time t.
LockItemNoTtl(t) == {t}
LockItem(t) == {t + env.lock_ttl_sec}

\* release_lock: delete_item on the lease key, whoever wrote it.
ReleasedLock(lk) == {}

list_urls(company) == {k[2] : k \in {x \in DOMAIN table : x[1] = company}}

OrStr(v, d) == IF v = "" THEN d ELSE v
OrInt(v, d) == IF v = 0 THEN d ELSE v
Upper(c) == IF c = "us" THEN "US" ELSE c
IntBool(x) == IF x = 0 THEN 0 ELSE 1

\* The item batch_upsert_items puts for one draft at time now_ts.
ItemPostedNow(item, now_ts) ==
    [title        |-> OrStr(item.title, ""),
     category     |-> OrStr(item.category, "other"),
     posted_at    |-> now_ts,
     loc_country  |-> Upper(OrStr(item.loc_country, "")),
     remote       |-> IntBool(item.remote),
     active       |-> 1,
     last_seen_at |-> now_ts]
Item(item, now_ts) ==
    [title        |-> OrStr(item.title, ""),
     category     |-> OrStr(item.category, "other"),
     posted_at    |-> OrInt(item.posted_at, now_ts),
     loc_country  |-> Upper(OrStr(item.loc_country, "")),
     remote       |-> IntBool(item.remote),
     active       |-> 1,
     last_seen_at |-> now_ts]

\* batch_upsert_items(company, url_to_item) at time now_ts, applied to tbl.
batch_upsert_items(tbl, company, url_to_item, now_ts) ==
    LET keys == {<<company, u>> : u \in DOMAIN url_to_item}
    IN  [k \in DOMAIN tbl \cup keys |->
            IF k \in keys THEN Item(url_to_item[k[2]], now_ts) ELSE tbl[k]]

\* finalize_company: the URLs it deletes, and the table afterwards.
to_delete_ignoring_discovered(company, discovered_urls) == list_urls(company)
to_delete_nothing(company, discovered_urls) == {}
to_delete(company, discovered_urls) == list_urls(company) \ Range(discovered_urls)

DeleteUrlsEveryCompany(tbl, company, urls) ==
    [k \in {x \in DOMAIN tbl : x[2] \notin urls} |-> tbl[k]]
DeleteUrls(tbl, company, urls) ==
    [k \in DOMAIN tbl \ {<<company, u>> : u \in urls} |-> tbl[k]]

-----------------------------------------------------------------------------
(* scraper/runner.py: local state of one invocation of run() *)

NoCap == <<>>      \* settings.max_new_per_run is None
MaxNewChoices == {NoCap} \cup {<<k>> : k \in 1..MaxNewCap}

IdleRun ==
    [pc            |-> "idle",
     lock_acquired |-> FALSE,
     lock_now      |-> 0,
     max_new_per_run |-> NoCap,
     targets       |-> <<>>,
     name          |-> "",
     discovered    |-> <<>>,
     disc_failed   |-> FALSE,
     existing      |-> {},
     todo          |-> <<>>,
     i             |-> 0,
     chunk         |-> EmptyDict,
     fetched       |-> 0,
     written       |-> 0,
     now_ts        |-> 0,
     missing       |-> {},
     failed        |-> {},
     drafted       |-> {},
     summary       |-> EmptyDict,
     error         |-> "",
     raised        |-> FALSE,
     overlapped    |-> FALSE]

\* Inside the try block of run(), between acquire_lock and release_lock.
InTry == {"loop", "fetch", "finalize", "finalized"}
Holding(r) == run[r].lock_acquired /\ run[r].pc \in InTry \cup {"release"}

\* The deployments of the model.  Each fixes the settings, the URLs each
\* site may list, the lists run() is called with, and the processes that
\* invoke run().  The first three give the lease a ttl the clock of the model
\* never reaches, so their runs never overlap.
HtmlEnv ==
    [lock_ttl_sec |-> MaxTime,
     site         |-> [c \in Range(Companies) |-> IF c \in JsBacked THEN {} ELSE URLs],
     companies    |-> {<<"amazon">>},
     caps         |-> MaxNewChoices,
     runs         |-> {"r1"}]
JsEnv ==
    [lock_ttl_sec |-> MaxTime,
     site         |-> [c \in Range(Companies) |-> IF c \in JsBacked THEN URLs ELSE {}],
     companies    |-> {<<"meta">>},
     caps         |-> MaxNewChoices,
     runs         |-> {"r1"}]
MultiEnv ==
    [lock_ttl_sec |-> MaxTime,
     site         |-> [c \in Range(Companies) |-> {"u1", "u2"}],
     companies    |-> {<<"amazon", "meta">>, <<"meta", "amazon">>},
     caps         |-> {NoCap},
     runs         |-> {"r1"}]
\* A deployment whose lease can expire under a run, with two processes.
ShortLeaseEnv ==
    [lock_ttl_sec |-> ShortTtl,
     site         |-> [c \in Range(Companies) |-> IF c \in JsBacked THEN {} ELSE {"u1"}],
     companies    |-> {<<"amazon">>},
     caps         |-> {NoCap},
     runs         |-> Runs]
Deployments == {HtmlEnv, JsEnv, MultiEnv, ShortLeaseEnv}

\* No request has been sent to the query handler.
NoCall == [pc |-> "idle"]

Start0 ==
    /\ now = 1
    /\ table = EmptyDict
    /\ lock = {}
    /\ run = [r \in Runs |-> IdleRun]
    /\ overrun = FALSE
    /\ api = NoCall

Init == Start0 /\ env \in Deployments

-----------------------------------------------------------------------------
(* run(): acquire_lock, make_session, the loop over the targets, release *)

\* Where control goes when the try block of run() is left: the finally block.
FinallySkipped == "returned"
Finally == "release"

\* Where run() goes with the answer of acquire_lock.
AfterAcquireIgnoringBusy(ok) == "loop"
AfterAcquire(ok) == IF ok THEN "loop" ELSE "returned"

Start(r) ==
    /\ r \in env.runs
    /\ run[r].pc = "idle"
    /\ \E companies \in env.companies, cap \in env.caps, session_ok \in BOOLEAN :
        LET ok == LockCondition(lock, now)
            pc1 == IF ok /\ ~session_ok THEN Finally ELSE AfterAcquire(ok)
            me == [run[r] EXCEPT
                     !.lock_acquired = ok,
                     !.lock_now = now,
                     !.max_new_per_run = cap,
                     !.targets = IF pc1 = "loop" THEN companies ELSE <<>>,
                     !.raised = ok /\ ~session_ok,
                     !.overlapped = ok /\ \E s \in Runs \ {r} : Holding(s),
                     !.pc = pc1]
        IN  /\ (~ok => session_ok)
            /\ lock' = IF ok THEN LockItem(now) ELSE lock
            /\ run' = [s \in Runs |->
                         IF s = r THEN me
                         ELSE IF ok /\ Holding(s)
                              THEN [run[s] EXCEPT !.overlapped = TRUE]
                              ELSE run[s]]
    /\ UNCHANGED <<now, table, env, overrun, api>>

\* acquire_lock did not return: put_item raised something other than the
\* failed condition, or the settings carry no lock_key or lock_ttl_sec.  The
\* exception leaves run() before the try block; nothing was written.
AcquireRaise(r) ==
    /\ r \in env.runs
    /\ run[r].pc = "idle"
    /\ run' = [run EXCEPT ![r] = [@ EXCEPT !.lock_now = now,
                                           !.error = "acquire",
                                           !.raised = TRUE,
                                           !.pc = "returned"]]
    /\ UNCHANGED <<now, table, lock, env, overrun, api>>

Tick ==
    /\ now < MaxTime
    /\ now' = now + 1
    /\ overrun' = (overrun \/ \E r \in Runs :
                      Holding(r) /\ now + 1 >= run[r].lock_now + env.lock_ttl_sec)
    /\ UNCHANGED <<table, lock, run, env, api>>

-----------------------------------------------------------------------------
(* process_company *)

\* A run enters process_company(name, ...) with fresh locals.
Enter(rec) ==
    [rec EXCEPT !.name = Head(rec.targets), !.targets = Tail(rec.targets),
                !.discovered = <<>>, !.disc_failed = FALSE, !.existing = {},
                !.todo = <<>>, !.i = 0, !.chunk = EmptyDict, !.fetched = 0,
                !.written = 0, !.missing = {}, !.failed = {}, !.drafted = {},
                !.error = ""]

\* process_company is left, by return or by an exception run() logs as err:
\* its locals are gone.
Leave(rec, err) ==
    [rec EXCEPT !.discovered = <<>>, !.disc_failed = FALSE, !.existing = {},
                !.todo = <<>>, !.i = 0, !.chunk = EmptyDict, !.fetched = 0,
                !.written = 0, !.missing = {}, !.failed = {}, !.drafted = {},
                !.error = err,
                !.pc = "loop"]

\* todo: the discovered URLs not in the catalogue, cut to max_new_per_run.
todo_with_existing(discovered, existing, cap) ==
    IF cap = NoCap THEN discovered ELSE Take(discovered, cap[1])
todo_uncapped(discovered, existing, cap) ==
    SelectSeq(discovered, LAMBDA u : u \notin existing)
todo_of(discovered, existing, cap) ==
    LET new == SelectSeq(discovered, LAMBDA u : u \notin existing)
    IN  IF cap = NoCap THEN new ELSE Take(new, cap[1])

\* What run() does when discover_fn raises: the except branch of its loop.
DiscoverRaisedAsEmpty(rec) ==
    [rec EXCEPT !.error = "discover", !.pc = "fetch"]
DiscoverRaisedPropagates(rec) == [Leave(rec, "discover") EXCEPT !.pc = Finally]
DiscoverRaised(rec) == Leave(rec, "discover")

\* What process_company does with the list an adapter returned.  An adapter
\* whose listing requests failed logs the failure and returns what it had.
Discovered(rec, urls, failed) ==
    LET d == Dedup(urls)
        e == list_urls(rec.name)
    IN  [rec EXCEPT !.discovered = d, !.disc_failed = failed, !.existing = e,
                    !.todo = todo_of(d, e, rec.max_new_per_run), !.pc = "fetch"]

Return(r) ==
    /\ run[r].pc = "loop"
    /\ run[r].targets = <<>>
    /\ run' = [run EXCEPT ![r].pc = Finally]
    /\ UNCHANGED <<now, table, lock, env, overrun, api>>

DiscoverRaise(r) ==
    /\ run[r].pc = "loop"
    /\ run[r].targets # <<>>
    /\ run' = [run EXCEPT ![r] = DiscoverRaised(Enter(run[r]))]
    /\ UNCHANGED <<now, table, lock, env, overrun, api>>

Discover(r) ==
    /\ run[r].pc = "loop"
    /\ run[r].targets # <<>>
    /\ \E S \in SUBSET env.site[Head(run[r].targets)], failed \in BOOLEAN :
          /\ failed => S = {}
          /\ run' = [run EXCEPT ![r] = Discovered(Enter(run[r]), Sorted(S), failed)]
    /\ UNCHANGED <<now, table, lock, env, overrun, api>>

ListUrlsRaise(r) ==
    /\ run[r].pc = "loop"
    /\ run[r].targets # <<>>
    /\ run' = [run EXCEPT ![r] = Leave(Enter(run[r]), "list_urls")]
    /\ UNCHANGED <<now, table, lock, env, overrun, api>>

\* The draft the HTML branch builds from a page that has a country and is
\* classified "it"; the draft the browser branch builds from a description.
HtmlDraft(t) ==
    [title |-> "t", category |-> "it", posted_at |-> t,
     loc_country |-> "US", remote |-> 0]
JsDraft(t) ==
    [title |-> "", category |-> "it", posted_at |-> t,
     loc_country |-> "", remote |-> 0]

\* What one pass of the loop body can find for a URL.
\*   "ok": fetched, has a country (HTML branch), classified "it"
\*   "nocountry": parse_location_fields gave no country (HTML branch only)
\*   "other": classify_category gave "other" (browser branch: also no description)
\*   "error": _fetch_html or a parser raised, caught by the loop (HTML branch only)
Outcomes(company) ==
    IF company \in JsBacked THEN {"ok", "other"}
    ELSE {"ok", "nocountry", "other", "error"}

\* The locals after the loop body for todo[i+1] with outcome o, before the
\* size test: the continue statements skip the size test and `fetched = i`.
Continues(company, o) == o \in {"nocountry", "other"}

Body(rec, o, t) ==
    LET u == rec.todo[rec.i + 1]
        js == rec.name \in JsBacked
    IN  [rec EXCEPT
           !.i = rec.i + 1,
           !.chunk = IF o = "ok"
                     THEN [x \in DOMAIN rec.chunk \cup {u} |->
                             IF x = u THEN (IF js THEN JsDraft(t) ELSE HtmlDraft(t))
                             ELSE rec.chunk[x]]
                     ELSE rec.chunk,
           !.missing = IF o = "nocountry" THEN rec.missing \cup {u} ELSE rec.missing,
           !.failed = IF o = "error" THEN rec.failed \cup {u} ELSE rec.failed,
           !.drafted = IF o = "ok" THEN rec.drafted \cup {u} ELSE rec.drafted,
           !.fetched = IF js \/ Continues(rec.name, o) THEN rec.fetched ELSE rec.i + 1]

\* flush() that succeeded: the locals afterwards.
FlushedKeepingChunk(rec) ==
    [rec EXCEPT !.written = rec.written + Cardinality(DOMAIN rec.chunk)]
Flushed(rec) ==
    [rec EXCEPT !.written = rec.written + Cardinality(DOMAIN rec.chunk),
                !.chunk = EmptyDict]

\* The size test after the loop body.
NeedsFlush(rec) == Cardinality(DOMAIN rec.chunk) >= chunk_upsert_size

Fetch(r) ==
    /\ run[r].pc = "fetch"
    /\ run[r].i < Len(run[r].todo)
    /\ \E o \in Outcomes(run[r].name) :
        LET rec == Body(run[r], o, now)
        IN  /\ Continues(rec.name, o) \/ ~NeedsFlush(rec)
            /\ run' = [run EXCEPT ![r] = rec]
    /\ UNCHANGED <<now, table, lock, env, overrun, api>>

\* After the loop: fetched = len(todo) in the browser branch.
AfterLoopUnlessFailed(rec) ==
    [rec EXCEPT !.fetched = IF rec.name \in JsBacked THEN Len(rec.todo) ELSE rec.fetched,
                !.pc = IF rec.failed # {} THEN "finalized" ELSE "finalize"]
AfterLoop(rec) ==
    [rec EXCEPT !.fetched = IF rec.name \in JsBacked THEN Len(rec.todo) ELSE rec.fetched,
                !.pc = "finalize"]

\* The locals with which flush() is called: in the loop, after the body stored
\* a draft and the chunk reached chunk_upsert_size; or after the loop.
AtFlush(rec, t) == IF rec.i < Len(rec.todo) THEN Body(rec, "ok", t) ELSE AfterLoop(rec)
FlushDue(rec, t) ==
    IF rec.i < Len(rec.todo) THEN NeedsFlush(Body(rec, "ok", t)) ELSE rec.chunk # EmptyDict

\* flush() with a chunk to write, and batch_upsert_items succeeding.
Flush(r) ==
    /\ run[r].pc = "fetch"
    /\ FlushDue(run[r], now)
    /\ LET rec == AtFlush(run[r], now)
       IN  /\ table' = batch_upsert_items(table, rec.name, rec.chunk, now)
           /\ run' = [run EXCEPT ![r] = Flushed(rec)]
    /\ UNCHANGED <<now, lock, env, overrun, api>>

\* batch_upsert_items raised after writing the items of S; the exception
\* leaves process_company and is logged by run().
FlushRaise(r) ==
    /\ run[r].pc = "fetch"
    /\ FlushDue(run[r], now)
    /\ LET rec == AtFlush(run[r], now)
       IN  /\ \E S \in SUBSET DOMAIN rec.chunk :
                table' = batch_upsert_items(table, rec.name, Restrict(rec.chunk, S), now)
           /\ run' = [run EXCEPT ![r] = Leave(rec, "flush")]
    /\ UNCHANGED <<now, lock, env, overrun, api>>

\* After the loop, flush() with an empty chunk does nothing.
EndLoop(r) ==
    /\ run[r].pc = "fetch"
    /\ run[r].i = Len(run[r].todo)
    /\ run[r].chunk = EmptyDict
    /\ run' = [run EXCEPT ![r] = AfterLoop(run[r])]
    /\ UNCHANGED <<now, table, lock, env, overrun, api>>

\* finalize_company(name, discovered) succeeding: the run is at the return
\* statement of process_company, its locals still in scope.
Finalize(r) ==
    /\ run[r].pc = "finalize"
    /\ table' = DeleteUrls(table, run[r].name,
                           to_delete(run[r].name, run[r].discovered))
    /\ run' = [run EXCEPT ![r].pc = "finalized"]
    /\ UNCHANGED <<now, lock, env, overrun, api>>

\* process_company returns and run() stores the result under summary[name].
Returned(rec) ==
    [Leave(rec, "") EXCEPT
       !.summary = [c \in DOMAIN rec.summary \cup {rec.name} |->
                      IF c = rec.name
                      THEN [pages_fetched |-> rec.fetched, new_rows |-> rec.written]
                      ELSE rec.summary[c]]]

ReturnCompany(r) ==
    /\ run[r].pc = "finalized"
    /\ run' = [run EXCEPT ![r] = Returned(run[r])]
    /\ UNCHANGED <<now, table, lock, env, overrun, api>>

\* finalize_company raised after deleting the items of S.
FinalizeRaise(r) ==
    /\ run[r].pc = "finalize"
    /\ LET rec == run[r]
       IN  /\ \E S \in SUBSET to_delete(rec.name, rec.discovered) :
                table' = DeleteUrls(table, rec.name, S)
           /\ run' = [run EXCEPT ![r] = Leave(rec, "finalize")]
    /\ UNCHANGED <<now, lock, env, overrun, api>>

-----------------------------------------------------------------------------
(* The finally block of run(), and the ways a run ends *)

\* release_lock: delete_item succeeded.
Release(r) ==
    /\ run[r].pc = "release"
    /\ lock' = IF run[r].lock_acquired THEN ReleasedLock(lock) ELSE lock
    /\ run' = [run EXCEPT ![r].pc = "returned"]
    /\ UNCHANGED <<now, table, env, overrun, api>>

\* release_lock: delete_item raised, and the except clause passed.
ReleaseSwallow(r) ==
    /\ run[r].pc = "release"
    /\ run[r].lock_acquired
    /\ run' = [run EXCEPT ![r].pc = "returned"]
    /\ UNCHANGED <<now, table, lock, env, overrun, api>>

\* KeyboardInterrupt or SystemExit inside the try block: not an Exception,
\* so it passes the except clause of the loop and reaches the finally block.
Cancel(r) ==
    /\ run[r].pc \in InTry
    /\ run' = [run EXCEPT ![r] = [Leave(run[r], run[r].error) EXCEPT
                                    !.pc = Finally, !.raised = TRUE]]
    /\ UNCHANGED <<now, table, lock, env, overrun, api>>

\* The process is killed: nothing more runs, the finally block included.
Crash(r) ==
    /\ run[r].pc \in InTry \cup {"release"}
    /\ run' = [run EXCEPT ![r] = [Leave(run[r], run[r].error) EXCEPT !.pc = "crashed"]]
    /\ UNCHANGED <<now, table, lock, env, overrun, api>>

\* The invocation is over; the next one starts from fresh locals.
Reset(r) ==
    /\ run[r].pc \in {"returned", "crashed"}
    /\ run' = [run EXCEPT ![r] = IdleRun]
    /\ UNCHANGED <<now, table, lock, env, overrun, api>>

Next ==
    \/ Tick
    \/ \E r \in Runs :
        \/ Start(r)
        \/ AcquireRaise(r)
        \/ Return(r)
        \/ DiscoverRaise(r)
        \/ Discover(r)
        \/ ListUrlsRaise(r)
        \/ Fetch(r)
        \/ Flush(r)
        \/ FlushRaise(r)
        \/ EndLoop(r)
        \/ Finalize(r)
        \/ ReturnCompany(r)
        \/ FinalizeRaise(r)
        \/ Release(r)
        \/ ReleaseSwallow(r)
        \/ Cancel(r)
        \/ Crash(r)
        \/ Reset(r)

Spec == Init /\ [][Next]_vars

-----------------------------------------------------------------------------
(* batch_upsert_items called twice with the same posting data *)

\* The values a caller can put in the fields of a posting: present or absent
\* text, a country code in either case, a parsed or absent posting time.
Drafts ==
    [title       : {"t"},
     category    : {"", "it"},
     posted_at   : {0, 1},
     loc_country : {"", "us", "US"},
     remote      : {0, 1}]

\* The url_to_item dicts of a call: any posting data for up to two URLs.
UpsertInputs ==
    UNION {[S -> Drafts] : S \in SUBSET {UrlOrder[1], UrlOrder[2]}}

\* What the table holds before the first call: nothing, or an older item
\* under one of the keys and one under a key the calls do not touch.
TablesBefore ==
    {EmptyDict,
     [k \in {<<Companies[1], UrlOrder[1]>>, <<Companies[1], UrlOrder[3]>>}
         |-> Item(HtmlDraft(1), 1)]}

InitUpsert ==
    /\ now = 1
    /\ lock = {}
    /\ overrun = FALSE
    /\ api = NoCall
    /\ env = HtmlEnv
    /\ table \in TablesBefore
    /\ \E url_to_item \in UpsertInputs :
          run = [r \in Runs |->
                    IF r = "r1"
                    THEN [IdleRun EXCEPT !.name = Companies[1], !.chunk = url_to_item]
                    ELSE IdleRun]

\* The first call of batch_upsert_items(company, url_to_item).
UpsertOnce(r) ==
    /\ run[r].pc = "idle"
    /\ run[r].name # ""
    /\ table' = batch_upsert_items(table, run[r].name, run[r].chunk, now)
    /\ run' = [run EXCEPT ![r].pc = "once", ![r].now_ts = now]
    /\ UNCHANGED <<now, lock, env, overrun, api>>

\* The second call with the same arguments, at the same or a later time.
UpsertAgain(r) ==
    /\ run[r].pc = "once"
    /\ table' = batch_upsert_items(table, run[r].name, run[r].chunk, now)
    /\ run' = [run EXCEPT ![r].pc = "twice"]
    /\ UNCHANGED <<now, lock, env, overrun, api>>

NextUpsert ==
    \/ Tick
    \/ \E r \in Runs :
        \/ UpsertOnce(r)
        \/ UpsertAgain(r)

SpecUpsert == InitUpsert /\ [][NextUpsert]_vars

-----------------------------------------------------------------------------
(* Runs repeated over a site that does not change *)

MaxRepeatCap == 2   \* the configured values of max_new_per_run are 1..MaxRepeatCap

\* What the page of a URL gives on every fetch: a posting that validates, one
\* without a country, or one that is not classified "it".
Verdicts == {"ok", "nocountry", "other"}

\* A deployment with one HTML source that lists the same URLs on every run,
\* a cap, and pages that do not change.
RepeatEnv(cap, verdict) ==
    [lock_ttl_sec |-> MaxTime,
     site         |-> [c \in Range(Companies) |-> IF c \in JsBacked THEN {} ELSE URLs],
     companies    |-> {<<Companies[1]>>},
     caps         |-> {<<cap>>},
     runs         |-> {"r1"},
     verdict      |-> verdict]

InitRepeat ==
    /\ Start0
    /\ env \in {RepeatEnv(cap, verdict) :
                   cap \in 1..MaxRepeatCap, verdict \in [URLs -> Verdicts]}

\* run() is called, acquires the lease and opens its session.
RepeatStart(r) == Start(r) /\ run'[r].pc = "loop"

\* discover_fn returns the URLs of the site.
RepeatDiscover(r) ==
    /\ Discover(r)
    /\ ~run'[r].disc_failed
    /\ run'[r].discovered = Sorted(env.site[run'[r].name])

\* The next URL of todo is fetched and gives what its page gives.
RepeatFetch(r) ==
    /\ Fetch(r)
    /\ run'[r] = Body(run[r], env.verdict[run[r].todo[run[r].i + 1]], now)

\* flush() inside the loop, after a page that validated, or after the loop.
RepeatFlush(r) ==
    /\ Flush(r)
    /\ run[r].i < Len(run[r].todo) => env.verdict[run[r].todo[run[r].i + 1]] = "ok"

\* Every store request and every fetch succeeds; a finished run is followed
\* by the next one.
NextRepeat ==
    \E r \in Runs :
        \/ RepeatStart(r)
        \/ RepeatDiscover(r)
        \/ RepeatFetch(r)
        \/ RepeatFlush(r)
        \/ EndLoop(r)
        \/ Finalize(r)
        \/ ReturnCompany(r)
        \/ Return(r)
        \/ Release(r)
        \/ Reset(r)

\* The scheduler keeps calling run() and every call runs to its end.
SpecRepeat == InitRepeat /\ [][NextRepeat]_vars /\ WF_vars(NextRepeat)

-----------------------------------------------------------------------------
(* api/handler.py: strings, _parse_since, the limit *)

\* A string that the handler parses is the sequence of its characters.
Digits == <<"0", "1", "2", "3", "4", "5", "6", "7", "8", "9">>
IsDigit(c) == \E n \in 1..Len(Digits) : Digits[n] = c
DigitVal(c) == (CHOOSE n \in 1..Len(Digits) : Digits[n] = c) - 1

\* str.strip() and str.lower(), on the characters the requests use.
RECURSIVE LStrip(_)
LStrip(s) == IF s # <<>> /\ Head(s) = " " THEN LStrip(Tail(s)) ELSE s
RECURSIVE RStrip(_)
RStrip(s) == IF s # <<>> /\ s[Len(s)] = " " THEN RStrip(SubSeq(s, 1, Len(s) - 1)) ELSE s
Strip(s) == RStrip(LStrip(s))
LowerChar(c) == IF c = "D" THEN "d" ELSE IF c = "H" THEN "h" ELSE c
Lower(s) == [n \in 1..Len(s) |-> LowerChar(s[n])]

\* The value of a run of digits.
RECURSIVE DigitsVal(_)
DigitsVal(s) ==
    IF s = <<>> THEN 0 ELSE 10 * DigitsVal(SubSeq(s, 1, Len(s) - 1)) + DigitVal(s[Len(s)])
AllDigits(s) == s # <<>> /\ \A n \in 1..Len(s) : IsDigit(s[n])

\* int(s): blanks around, an optional sign, then digits; anything else raises
\* ValueError.  The result is <<v>>, or <<>> for the exception.
ValueError == <<>>
int(s) ==
    LET t == Strip(s)
    IN  IF t # <<>> /\ Head(t) \in {"-", "+"} /\ AllDigits(Tail(t))
        THEN <<(IF Head(t) = "-" THEN -1 ELSE 1) * DigitsVal(Tail(t))>>
        ELSE IF AllDigits(t) THEN <<DigitsVal(t)>>
        ELSE ValueError

Day == 86400       \* seconds of a day
Hour == 3600       \* seconds of an hour
DefaultDays == 30  \* the window of a request without a usable since

\* The number of days from 1970-01-01 to the civil date y-m-d.
DaysFromCivil(y, m, d) ==
    LET yy == IF m <= 2 THEN y - 1 ELSE y
        era == yy \div 400
        yoe == yy - era * 400
        mp == (m + 9) % 12
        doy == (153 * mp + 2) \div 5 + d - 1
        doe == yoe * 365 + yoe \div 4 - yoe \div 100 + doy
    IN  era * 146097 + doe - 719468

IsLeap(y) == y % 4 = 0 /\ (y % 100 # 0 \/ y % 400 = 0)
DaysInMonth(y, m) ==
    IF m = 2 THEN (IF IsLeap(y) THEN 29 ELSE 28)
    ELSE IF m \in {4, 6, 9, 11} THEN 30 ELSE 31

\* dateparser.parse(s) followed by replace(tzinfo=utc).timestamp(), for the
\* strings of the form YYYY-MM-DD: <<epoch second of that date at 00:00>>, or
\* <<>> when parse raises (no such date, or not a date at all).
dateparse(s) ==
    IF /\ Len(s) = 10
       /\ s[5] = "-" /\ s[8] = "-"
       /\ AllDigits(SubSeq(s, 1, 4)) /\ AllDigits(SubSeq(s, 6, 7)) /\ AllDigits(SubSeq(s, 9, 10))
    THEN LET y == DigitsVal(SubSeq(s, 1, 4))
             m == DigitsVal(SubSeq(s, 6, 7))
             d == DigitsVal(SubSeq(s, 9, 10))
         IN  IF y >= 1 /\ m \in 1..12 /\ d \in 1..DaysInMonth(y, m)
             THEN <<DaysFromCivil(y, m, d) * Day>>
             ELSE <<>>
    ELSE <<>>

\* _parse_since(since) read at clock t.
_parse_since_default_only(since, t) == t - DefaultDays * Day
_parse_since(since, t) ==
    LET s == Lower(Strip(since))
        head == SubSeq(s, 1, Len(s) - 1)
    IN  IF s = <<>> THEN t - DefaultDays * Day
        ELSE IF s[Len(s)] = "d" /\ int(head) # ValueError THEN t - int(head)[1] * Day
        ELSE IF s[Len(s)] = "h" /\ int(head) # ValueError THEN t - int(head)[1] * Hour
        ELSE IF dateparse(s) # <<>> THEN dateparse(s)[1]
        ELSE t - DefaultDays * Day

-----------------------------------------------------------------------------
(* The store as the handler reads it: TABLE.query on a secondary index *)

\* The three indexes, each with posted_at as its sort key, and the attribute
\* that is the partition key of each.
PartitionValue(index, k) ==
    IF index = "GSICompanyPosted" THEN k[1]
    ELSE IF index = "GSICountryPosted" THEN table[k].loc_country
    ELSE table[k].category

\* The place of a table key among items with equal posted_at: the store keeps
\* one fixed order of them.
KeyRank(k) ==
    (CHOOSE n \in 1..Len(Companies) : Companies[n] = k[1]) * (Len(UrlOrder) + 1)
        + (CHOOSE n \in 1..Len(UrlOrder) : UrlOrder[n] = k[2])

\* k1 is read before k2 with ScanIndexForward = False: newest first.
ReadBeforeOldestFirst(k1, k2) ==
    \/ table[k1].posted_at < table[k2].posted_at
    \/ table[k1].posted_at = table[k2].posted_at /\ KeyRank(k1) < KeyRank(k2)
ReadBefore(k1, k2) ==
    \/ table[k1].posted_at > table[k2].posted_at
    \/ table[k1].posted_at = table[k2].posted_at /\ KeyRank(k1) > KeyRank(k2)

\* The keys of K in reading order.
RECURSIVE InReadOrder(_)
InReadOrder(K) ==
    IF K = {} THEN <<>>
    ELSE LET first == CHOOSE k \in K : \A j \in K \ {k} : ReadBefore(k, j)
         IN  <<first>> \o InReadOrder(K \ {first})

\* KeyConditionExpression: Key(attr).eq(pk) & Key("posted_at").gte(since).
KeyRange(index, pk, since) ==
    InReadOrder({k \in DOMAIN table :
                    PartitionValue(index, k) = pk /\ table[k].posted_at >= since})

\* A start key: the table key and the sort key of an item.  num tells what
\* its number is in Python: a Decimal when boto3 deserialised it from the
\* store, an int when json.loads read it.
NoKey == [company |-> "", url |-> "", posted_at |-> 0, num |-> "int"]
KeyOf(k, num) == [company |-> k[1], url |-> k[2], posted_at |-> table[k].posted_at, num |-> num]

\* Where reading starts in the range: after the item of the start key.
StartPos(range, esk) ==
    IF esk = NoKey THEN 0
    ELSE CHOOSE n \in 1..Len(range) : range[n] = <<esk.company, esk.url>>

\* The start key names an item of the range.
InRange(range, esk) ==
    \E n \in 1..Len(range) :
        range[n] = <<esk.company, esk.url>> /\ table[range[n]].posted_at = esk.posted_at

\* TABLE.query(IndexName, KeyConditionExpression, FilterExpression, Limit,
\* ScanIndexForward=False, ExclusiveStartKey): the store reads at most Limit
\* items of the range from the start key on, then drops those the filter
\* rejects (keep holds the keys it accepts); when it stopped at Limit it
\* returns the key of the last item read.
query(index, pk, since, keep, limit, esk) ==
    LET range == KeyRange(index, pk, since)
        from == StartPos(range, esk)
        to == IF from + limit < Len(range) THEN from + limit ELSE Len(range)
        read == SubSeq(range, from + 1, to)
    IN  [Items |-> SelectSeq(read, LAMBDA k : k \in keep),
         LastEvaluatedKey |-> IF Len(read) = limit THEN KeyOf(read[limit], "Decimal")
                              ELSE NoKey]

-----------------------------------------------------------------------------
(* api/handler.py: lambda_handler *)

MinLimit == 1
MaxLimit == 200
DefaultLimit == <<"5", "0">>     \* qs.get("limit", "50")
DefaultSince == <<"3", "0", "d">> \* qs.get("since", "30d")

\* qs.get(k, d) on the query string parameters, a dict of the given ones.
Get(qs, k, d) == IF k \in DOMAIN qs THEN qs[k] ELSE d

\* .lower() and the truth of str(remote_q).lower() in ("1","true","yes","y"),
\* on the values the requests use.
lower(a) == IF a = "IT" THEN "it" ELSE IF a = "TRUE" THEN "true" ELSE a
RemoteFlag(a) == IF lower(a) \in {"1", "true", "yes", "y"} THEN 1 ELSE 0

\* min(max(v, 1), 200)
Clamp(v) ==
    LET lo == IF v > MinLimit THEN v ELSE MinLimit
    IN  IF lo < MaxLimit THEN lo ELSE MaxLimit

\* A cursor string, by what it decodes to:
\*   "empty":   the empty string
\*   "garbage": urlsafe_b64decode or json.loads raises on it
\*   "scalar":  the base64 of a JSON text that is not an object, as "NQ==" of 5
\*   "key":     the base64 of the JSON object of a start key
NoCursor == [kind |-> "None", value |-> NoKey]
TypeError == [kind |-> "TypeError", value |-> NoKey]
\* _b64e(d): json.dumps raises TypeError on a Decimal.
_b64e(d) == IF d.num = "Decimal" THEN TypeError ELSE [kind |-> "key", value |-> d]

\* One item of the response body.
Out(k) ==
    [company |-> k[1], url |-> k[2], title |-> table[k].title,
     category |-> table[k].category, posted_at |-> table[k].posted_at,
     loc_country |-> table[k].loc_country,
     remote |-> IF table[k].remote # 0 THEN 1 ELSE 0]

\* FilterExpression: active = 1 and, by the index chosen, the other filters.
\* remote is <<>> for None, else <<0>> or <<1>>.
filt_without_remote(index, category, country, remote, k) ==
    /\ table[k].active = 1
    /\ index = "GSICategoryPosted" \/ table[k].category = category
    /\ (index = "GSICompanyPosted" /\ country # "") => table[k].loc_country = country
filt(index, category, country, remote, k) ==
    /\ table[k].active = 1
    /\ index = "GSICategoryPosted" \/ table[k].category = category
    /\ (index = "GSICompanyPosted" /\ country # "") => table[k].loc_country = country
    /\ remote # <<>> => table[k].remote = remote[1]

Raised(exc, since, limit, index) ==
    [statusCode |-> 0, raised |-> exc, items |-> <<>>, next_cursor |-> NoCursor,
     since |-> since, limit |-> limit, index |-> index]
_ok(items, next_cursor, since, limit, index) ==
    [statusCode |-> 200, raised |-> "", items |-> items, next_cursor |-> next_cursor,
     since |-> since, limit |-> limit, index |-> index]

\* lambda_handler(event) at clock t.  lenient tells what the store does with
\* a start key that names no item of the queried range: an empty page when
\* TRUE, a ValidationException otherwise.
lambda_handler(qs, t, lenient) ==
    LET company == Get(qs, "company", "")
        category == lower(IF Get(qs, "category", "") = "" THEN "it" ELSE qs["category"])
        country == Upper(Get(qs, "country", ""))
        remote == IF "remote" \in DOMAIN qs THEN <<RemoteFlag(qs["remote"])>> ELSE <<>>
        since == _parse_since(Get(qs, "since", DefaultSince), t)
        parsed == int(Get(qs, "limit", DefaultLimit))
        limit == IF parsed = ValueError THEN 0 ELSE Clamp(parsed[1])
        cursor == Get(qs, "cursor", NoCursor)
        index == IF company # "" THEN "GSICompanyPosted"
                 ELSE IF country # "" THEN "GSICountryPosted"
                 ELSE "GSICategoryPosted"
        pk == IF company # "" THEN company ELSE IF country # "" THEN country ELSE category
        keep == {k \in DOMAIN table : filt(index, category, country, remote, k)}
        esk == IF cursor.kind = "key" THEN cursor.value ELSE NoKey
        range == KeyRange(index, pk, since)
        resp == query(index, pk, since, keep, limit, esk)
        next_cursor == IF resp.LastEvaluatedKey # NoKey THEN _b64e(resp.LastEvaluatedKey)
                       ELSE NoCursor
    IN  IF parsed = ValueError THEN Raised("ValueError", since, limit, "")
        ELSE IF cursor.kind = "scalar" THEN Raised("ParamValidationError", since, limit, index)
        ELSE IF esk # NoKey /\ ~InRange(range, esk)
             THEN IF lenient THEN _ok(<<>>, NoCursor, since, limit, index)
                  ELSE Raised("ClientError", since, limit, index)
        ELSE IF next_cursor = TypeError THEN Raised("TypeError", since, limit, index)
        ELSE _ok([n \in 1..Len(resp.Items) |-> Out(resp.Items[n])], next_cursor,
                 since, limit, index)

-----------------------------------------------------------------------------
(* A client of the query handler over a store that does not change *)

MaxQueryTicks == 1   \* hours that pass while a client reads
MaxPages == 2        \* requests of one client session

\* The clock when the client starts: 2024-01-03 00:00 UTC.
QueryStart == DaysFromCivil(2024, 1, 3) * Day

\* The postings of the store, with their age at QueryStart.
Posting(category, country, remote, age) ==
    Item([title |-> "t", category |-> category, posted_at |-> QueryStart - age,
          loc_country |-> country, remote |-> remote], QueryStart - age)
QueryStore ==
    [k \in {<<"amazon", "u1">>, <<"amazon", "u2">>, <<"amazon", "u3">>,
            <<"meta", "u1">>, <<"meta", "u2">>} |->
        IF k = <<"amazon", "u1">> THEN Posting("it", "US", 0, 2 * Day)
        ELSE IF k = <<"amazon", "u2">> THEN Posting("it", "US", 1, Hour)
        ELSE IF k = <<"amazon", "u3">> THEN Posting("other", "DE", 0, Hour)
        ELSE IF k = <<"meta", "u1">> THEN Posting("it", "DE", 1, 2 * Day + 1)
        ELSE Posting("it", "US", 0, (DefaultDays + 1) * Day)]
QueryStores ==
    {Restrict(QueryStore, S) :
        S \in {DOMAIN QueryStore, {k \in DOMAIN QueryStore : k[1] = "amazon"},
               {<<"amazon", "u2">>}, {}}}

\* A parameter the request does not carry.
NotGiven == "-"
NotGivenText == <<"-">>

\* The values a client sends.
CompanyChoices == {NotGiven, "amazon"}
CategoryChoices == {NotGiven, "other", "IT"}
CountryChoices == {NotGiven, "us", "DE"}
RemoteChoices == {NotGiven, "1", "no"}
SinceChoices ==
    {NotGivenText, <<>>, <<"2", "d">>, <<" ", "1", "D">>, <<"2", "5", "h">>, <<"x", "d">>,
     <<"2", "0", "2", "4", "-", "0", "1", "-", "0", "1">>,
     <<"2", "0", "2", "4", "-", "0", "2", "-", "3", "0">>}
LimitChoices ==
    {NotGivenText, <<"1">>, <<"2">>, <<"0">>, <<"-", "5">>, <<"2", "0", "1">>,
     <<"a", "b", "c">>}
CursorChoices ==
    {NoCursor,
     [kind |-> "empty", value |-> NoKey],
     [kind |-> "garbage", value |-> NoKey],
     [kind |-> "scalar", value |-> NoKey]}
        \cup {[kind |-> "key", value |-> KeyOf(k, "int")] : k \in DOMAIN table}

\* The dict of the parameters given.
Param(name, v, absent) == IF v = absent THEN EmptyDict ELSE [x \in {name} |-> v]
Merge(f, g) == [x \in DOMAIN f \cup DOMAIN g |-> IF x \in DOMAIN g THEN g[x] ELSE f[x]]

\* The client sends its first request and reads the answer.
Call ==
    /\ api.pc = "idle"
    /\ \E company \in CompanyChoices, category \in CategoryChoices,
          country \in CountryChoices, remote \in RemoteChoices,
          since \in SinceChoices, limit \in LimitChoices,
          cursor \in CursorChoices, lenient \in BOOLEAN :
        /\ \/ /\ since \in {NotGivenText, <<"2", "d">>}
              /\ limit \in {NotGivenText, <<"1">>}
              /\ cursor = NoCursor
           \/ /\ category = NotGiven /\ country = NotGiven /\ remote = NotGiven
              /\ limit \in {NotGivenText, <<"2">>}
              /\ cursor = NoCursor
           \/ /\ category = NotGiven /\ country = NotGiven /\ remote = NotGiven
              /\ since = NotGivenText
        /\ LET qs == Merge(Merge(Merge(Param("company", company, NotGiven),
                                       Param("category", category, NotGiven)),
                                 Merge(Param("country", country, NotGiven),
                                       Param("remote", remote, NotGiven))),
                           Merge(Merge(Param("since", since, NotGivenText),
                                       Param("limit", limit, NotGivenText)),
                                 Param("cursor", cursor, NoCursor)))
               resp == lambda_handler(qs, now, lenient)
           IN  api' = [pc |-> "answered", qs |-> qs, cursor |-> cursor, t0 |-> now,
                       t |-> now, resp |-> resp, seen |-> resp.items, pages |-> 1]
    /\ UNCHANGED <<now, table, lock, run, env, overrun>>

\* The cursor a client makes from the last item it was given: the base64 of
\* the JSON object of that item's keys.
CursorAfter(item) ==
    [kind |-> "key",
     value |-> [company |-> item.company, url |-> item.url,
                posted_at |-> item.posted_at, num |-> "int"]]

\* The client asks for the next page: the same parameters, with the
\* next_cursor of the answer or, when there is none, with a cursor of its own
\* for the last item it was given.
Again ==
    /\ api.pc = "answered"
    /\ api.pages < MaxPages
    /\ api.resp.statusCode = 200
    /\ api.resp.items # <<>>
    /\ \E lenient \in BOOLEAN :
        LET cursor == IF api.resp.next_cursor # NoCursor THEN api.resp.next_cursor
                      ELSE CursorAfter(api.resp.items[Len(api.resp.items)])
            resp == lambda_handler(Merge(api.qs, [x \in {"cursor"} |-> cursor]), now, lenient)
        IN  api' = [api EXCEPT !.cursor = cursor, !.t = now, !.resp = resp,
                               !.seen = api.seen \o resp.items, !.pages = api.pages + 1]
    /\ UNCHANGED <<now, table, lock, run, env, overrun>>

\* The client is done with its session.
Forget ==
    /\ api.pc = "answered"
    /\ api' = NoCall
    /\ UNCHANGED <<now, table, lock, run, env, overrun>>

\* An hour passes.
QueryTick ==
    /\ now < QueryStart + MaxQueryTicks * Hour
    /\ now' = now + Hour
    /\ UNCHANGED <<table, lock, run, env, overrun, api>>

InitQuery ==
    /\ now = QueryStart
    /\ table \in QueryStores
    /\ lock = {}
    /\ run = [r \in Runs |-> IdleRun]
    /\ env = HtmlEnv
    /\ overrun = FALSE
    /\ api = NoCall

NextQuery ==
    \/ QueryTick
    \/ Call
    \/ Again
    \/ Forget

SpecQuery == InitQuery /\ [][NextQuery]_vars

-----------------------------------------------------------------------------
(* Properties *)

Min(a, b) == IF a < b THEN a ELSE b

\* process_company of run r has completed: discovery returned, the loop and
\* finalize_company finished, and r is at its return statement.
Done(r) == run[r].pc = "finalized"
\* No other run was inside run() at any time since r acquired the lease.
Solo(r) == ~run[r].overlapped
\* The discovered URLs that were not in the catalogue when r listed it.
New(r) == Range(run[r].discovered) \ run[r].existing
\* The step in which r's call of acquire_lock returns.
AcquireCall(r) ==
    run[r].pc = "idle" /\ run'[r].pc # "idle" /\ run'[r].error # "acquire"
\* acquire_lock returned False to r and run() has returned.
Refused(r) ==
    run[r].pc = "returned" /\ ~run[r].lock_acquired /\ run[r].error # "acquire"

\* C1 as stated: after a completed run of process_company the catalogue of the
\* source is exactly the discovered set less the URLs skipped for a missing
\* country.
C1_ExactlyDiscovered ==
    \A r \in Runs :
        Done(r) /\ Solo(r) =>
            list_urls(run[r].name) = Range(run[r].discovered) \ run[r].missing

\* C1 amended: after a completed run that no other run overlapped, the
\* catalogue of the source is a subset of the discovered set; it holds every
\* URL that was stored before and discovered again, and exactly new_rows URLs
\* of todo (the drafts that were flushed); no URL logged as missing its
\* country is stored.
C1_StoredAfterRun ==
    \A r \in Runs :
        Done(r) /\ Solo(r) =>
            LET after == list_urls(run[r].name)
                disc == Range(run[r].discovered)
            IN  /\ after \subseteq disc
                /\ (run[r].existing \cap disc) \subseteq after
                /\ (after \ run[r].existing) \subseteq Range(run[r].todo)
                /\ Cardinality(after \ run[r].existing) = run[r].written
                /\ after \cap run[r].missing = {}

\* A completed run that kept an old posting, stored a new one and left out a
\* discovered URL that was not skipped for a missing country.
C1_Witness ==
    \E r \in Runs :
        /\ Done(r) /\ Solo(r)
        /\ run[r].written >= 1
        /\ run[r].existing \cap Range(run[r].discovered) # {}
        /\ (Range(run[r].discovered) \ list_urls(run[r].name)) \ run[r].missing # {}

\* C2: when the discovery function of a source raises, the run neither upserts
\* nor deletes for that source: every step the run takes with that error
\* logged for its current source leaves the catalogue as it was.
C2_DiscoverRaiseNoWrites ==
    [][\A r \in Runs :
          (run'[r] # run[r] /\ (run[r].error = "discover" \/ run'[r].error = "discover"))
              => table' = table]_vars

\* Discovery raised for a source that has two postings stored.
C2_Witness ==
    \E r \in Runs :
        /\ run[r].pc = "loop"
        /\ run[r].error = "discover"
        /\ Cardinality(list_urls(run[r].name)) >= 2

\* C3: when the adapter's listing requests fail and it returns an empty list,
\* the postings stored for the source before the run are still stored after it.
C3_FailedDiscoveryKeepsCatalogue ==
    \A r \in Runs :
        (Done(r) /\ Solo(r) /\ run[r].disc_failed /\ run[r].discovered = <<>>)
            => run[r].existing \subseteq list_urls(run[r].name)

\* C4: of two acquire_lock calls made at the same clock reading against an
\* absent or expired lease, one returns True and the other False: a call
\* returns True exactly when the condition holds, and after it the condition
\* is false at that clock reading.
C4_ExactlyOneAcquires ==
    [][\A r \in Runs :
          AcquireCall(r) =>
              /\ run'[r].lock_acquired <=> LockCondition(lock, now)
              /\ run'[r].lock_acquired => ~LockCondition(lock', now')]_vars

\* Two calls at the same clock reading: one run is inside run(), the other
\* was refused.
C4_Witness ==
    \E r, s \in Runs :
        /\ r # s
        /\ Holding(r)
        /\ Refused(s)
        /\ run[s].lock_now = run[r].lock_now

\* C5 as stated: at every instant at most one run is between a successful
\* acquire_lock and its release_lock.
C5_AtMostOneHolder == Cardinality({r \in Runs : Holding(r)}) <= 1

\* C5 amended: as long as no run has still been inside run() when its lease
\* expired, at most one run is between acquire_lock and release_lock.
C5_AtMostOneHolderWithinTtl == ~overrun => Cardinality({r \in Runs : Holding(r)}) <= 1

\* One run is fetching while another, started meanwhile, was refused.
C5_Witness ==
    \E r, s \in Runs :
        /\ r # s
        /\ ~overrun
        /\ Holding(r) /\ run[r].pc = "fetch"
        /\ Refused(s)

\* C6: acquire_lock against a lease whose lock_expires_at is not later than
\* the current time returns True and overwrites it, released or not.
C6_ExpiredLeaseAcquirable ==
    [][\A r \in Runs :
          (AcquireCall(r) /\ lock # {} /\ \A e \in lock : e <= now)
              => /\ run'[r].lock_acquired
                 /\ lock' = {now + env.lock_ttl_sec}]_vars

\* A run crashed holding the lease, and a later run acquired it after expiry.
C6_Witness ==
    \E r, s \in Runs :
        /\ r # s
        /\ run[s].pc = "crashed" /\ run[s].lock_acquired
        /\ Holding(r)
        /\ run[r].lock_now >= run[s].lock_now + env.lock_ttl_sec
        /\ lock = {run[r].lock_now + env.lock_ttl_sec}

\* C7 as stated: after run() exits, no lease record of that run remains.
C7_NoLeaseAfterExit ==
    \A r \in Runs :
        (run[r].pc = "returned" /\ run[r].lock_acquired)
            => lock # {run[r].lock_now + env.lock_ttl_sec}

\* C7 amended: a run that acquired the lease leaves the try block only into
\* release_lock (or by the death of the process), and run() exits only out of
\* release_lock, which has deleted the lease record or, when delete_item
\* raised, left it as it was.
C7_ReleaseOnEveryExit ==
    [][\A r \in Runs :
          /\ (run[r].lock_acquired /\ run[r].pc \in InTry)
                => run'[r].pc \in InTry \cup {"release", "crashed"}
          /\ (run'[r].lock_acquired /\ run'[r].pc = "returned" /\ run[r].pc # "returned")
                => (run[r].pc = "release" /\ lock' \in {{}, lock})]_vars

\* A run that was cancelled, or whose session failed, exited with the lease gone.
C7_Witness ==
    \E r \in Runs :
        /\ run[r].pc = "returned"
        /\ run[r].lock_acquired
        /\ run[r].raised
        /\ lock = {}

\* C8: a run whose acquire_lock returned False is never inside the try block
\* nor in release_lock, and its call of run() changes neither the postings nor
\* the lease and returns an empty summary.
C8_BusyRunSkipped ==
    [][\A r \in Runs :
          /\ run'[r].pc \in InTry \cup {"release"} => run'[r].lock_acquired
          /\ (AcquireCall(r) /\ ~run'[r].lock_acquired)
                => /\ table' = table
                   /\ lock' = lock
                   /\ run'[r].pc = "returned"
                   /\ run'[r].summary = EmptyDict]_vars

\* A refused run has returned; the catalogue holds postings and the lease of
\* the other holder is in place.
C8_Witness ==
    \E r \in Runs :
        /\ Refused(r)
        /\ lock # {}
        /\ table # EmptyDict

\* Every URL of todo was fetched, validated and flushed.
AllValidated(r) == run[r].written = Len(run[r].todo)

\* C9 as stated: when every new URL validates, after the run the catalogue is
\* the discovered set and fetched is the number of discovered URLs that were
\* not in the catalogue.
C9_ReconcileAllNew ==
    \A r \in Runs :
        (Done(r) /\ Solo(r) /\ AllValidated(r)) =>
            /\ list_urls(run[r].name) = Range(run[r].discovered)
            /\ run[r].fetched = Cardinality(New(r))

\* C9 amended: todo is the first max_new_per_run new URLs (all of them when
\* no cap is set); when every URL of todo validates, after a completed run
\* that no other run overlapped the catalogue holds the old discovered URLs
\* and todo, nothing of existing - discovered, no stored URL was fetched, and
\* fetched = |todo| = min(|discovered - existing|, max_new_per_run).
C9_ReconcileTodo ==
    \A r \in Runs :
        (Done(r) /\ Solo(r) /\ AllValidated(r)) =>
            LET after == list_urls(run[r].name)
                disc == Range(run[r].discovered)
                cap == run[r].max_new_per_run
            IN  /\ after = (run[r].existing \cap disc) \cup Range(run[r].todo)
                /\ (run[r].existing \ disc) \cap after = {}
                /\ Range(run[r].todo) \subseteq New(r)
                /\ Cardinality(Range(run[r].todo)) = Len(run[r].todo)
                /\ Len(run[r].todo) = IF cap = NoCap THEN Cardinality(New(r))
                                      ELSE Min(cap[1], Cardinality(New(r)))
                /\ run[r].fetched = Len(run[r].todo)

\* existing = {A, D}, discovered = {A, C}: C fetched and stored, D deleted.
C9_Witness ==
    \E r \in Runs :
        /\ Done(r) /\ Solo(r) /\ AllValidated(r)
        /\ run[r].existing \ Range(run[r].discovered) # {}
        /\ run[r].existing \cap Range(run[r].discovered) # {}
        /\ run[r].fetched = 1
        /\ Range(run[r].todo) \subseteq list_urls(run[r].name)

\* The step in which r calls batch_upsert_items the second time.
SecondCall(r) == run[r].pc = "once" /\ run'[r].pc = "twice"

SourceErrors == {"discover", "list_urls", "flush", "finalize"}

\* C11: an exception raised while a source is processed (by discovery, the
\* catalogue listing, a flush or finalize) leaves the run at the loop over the
\* targets with the remaining targets untouched and nothing propagating; and
\* the try block of run() is left, other than by cancellation or the death of
\* the process, only when no target remains.
C11_SourceErrorContained ==
    [][\A r \in Runs :
          /\ (run[r].pc \in InTry /\ run'[r].pc \in InTry
                /\ [run'[r] EXCEPT !.overlapped = run[r].overlapped] # run[r]
                /\ run'[r].error \in SourceErrors)
                => /\ run'[r].pc = "loop"
                   /\ run'[r].targets = IF run[r].pc = "loop" THEN Tail(run[r].targets)
                                        ELSE run[r].targets
                   /\ run'[r].summary = run[r].summary
          /\ (run[r].pc \in InTry /\ run'[r].pc \notin InTry)
                => \/ run'[r].pc = "crashed"
                   \/ run'[r].raised
                   \/ run'[r].pc = "release" /\ run[r].targets = <<>>]_vars

\* A run over two sources: the first raised, the second was then processed to
\* its end and stored a posting.
C11_Witness ==
    \E r \in Runs :
        /\ env = MultiEnv
        /\ run[r].pc = "finalized"
        /\ run[r].targets = <<>>
        /\ run[r].summary = EmptyDict
        /\ run[r].written >= 1

\* C12: the pages_fetched count process_company returns is the number of URLs
\* of todo for which a detail fetch was made, which at the return statement is
\* every URL of todo, whatever each fetch gave.
C12_FetchedCountsAttempts ==
    \A r \in Runs : Done(r) => run[r].fetched = run[r].i

\* C13: the summary of run() holds, for each processed source, a record with
\* pages_fetched, new_rows and deleted, and a run that found the lease busy
\* returns something other than the empty summary.
C13_SummaryReportsDeletedAndBusy ==
    \A r \in Runs :
        /\ \A c \in DOMAIN run[r].summary :
              {"pages_fetched", "new_rows", "deleted"} \subseteq DOMAIN run[r].summary[c]
        /\ Refused(r) => run[r].summary # EmptyDict

\* The URLs stored for a source once the step is taken.
list_urls_after(company) == {k[2] : k \in {x \in DOMAIN table' : x[1] = company}}

\* C20: a fetch or parse error on one URL is caught: the step that logs it
\* stays in the loop, writes nothing and moves on to the next URL of todo; a
\* run with failed fetches leaves the loop, other than by a flush exception,
\* cancellation or the death of the process, only into finalize_company and
\* only after the last URL of todo; and finalize_company, when it returns,
\* has left none of existing - discovered stored.
C20_FetchErrorsDoNotStopFinalize ==
    [][\A r \in Runs :
          /\ (run[r].pc = "fetch" /\ run'[r].pc = "fetch" /\ run'[r].failed # run[r].failed)
                => /\ run'[r].i = run[r].i + 1
                   /\ run'[r].todo = run[r].todo
                   /\ run'[r].discovered = run[r].discovered
                   /\ run'[r].error = ""
                   /\ table' = table
          /\ (run[r].pc = "fetch" /\ run[r].failed # {} /\ run'[r].pc # "fetch")
                => \/ run'[r].pc = "finalize" /\ run'[r].i = Len(run[r].todo)
                   \/ run'[r].pc = "loop" /\ run'[r].error = "flush"
                   \/ run'[r].raised
                   \/ run'[r].pc = "crashed"
          /\ (run[r].pc = "finalize" /\ run'[r].pc = "finalized")
                => list_urls_after(run[r].name)
                      \cap (run[r].existing \ Range(run[r].discovered)) = {}]_vars

\* A completed run whose first fetch failed: a later URL of todo was fetched
\* and stored, and the stale posting is gone.
C20_Witness ==
    \E r \in Runs :
        /\ Done(r)
        /\ run[r].todo # <<>>
        /\ run[r].todo[1] \in run[r].failed
        /\ run[r].written >= 1
        /\ run[r].existing \ Range(run[r].discovered) # {}
        /\ list_urls(run[r].name) \cap (run[r].existing \ Range(run[r].discovered)) = {}

-----------------------------------------------------------------------------
(* The query handler *)

\* The stored items a request with parameters qs asks for, read at a clock
\* whose window starts at since.
Wanted(qs, since) ==
    {k \in DOMAIN table :
        /\ table[k].active = 1
        /\ "company" \in DOMAIN qs => k[1] = qs["company"]
        /\ table[k].category = lower(Get(qs, "category", "it"))
        /\ "country" \in DOMAIN qs => table[k].loc_country = Upper(qs["country"])
        /\ "remote" \in DOMAIN qs => table[k].remote = RemoteFlag(qs["remote"])
        /\ table[k].posted_at >= since}

\* The keys of the items of a response, in its order.
Keys(items) == [n \in 1..Len(items) |-> <<items[n].company, items[n].url>>]

\* The client has the answer to a first request: one without cursor whose
\* limit, if any, is an integer.
FirstPage ==
    /\ api.pc = "answered"
    /\ api.pages = 1
    /\ "cursor" \notin DOMAIN api.qs
    /\ int(Get(api.qs, "limit", DefaultLimit)) # ValueError

\* C14: against an unchanging store, following next_cursor from a first
\* request until it is null yields every stored item that matches the filters
\* exactly once: each request of the chain is answered, and when the answer
\* carries no next_cursor the items given so far are the matching items, none
\* twice and none left out.
C14_PaginationYieldsEveryMatchOnce ==
    FirstPage =>
        /\ api.resp.statusCode = 200
        /\ api.resp.next_cursor = NoCursor =>
            /\ Range(Keys(api.seen)) = Wanted(api.qs, api.resp.since)
            /\ Len(api.seen) = Cardinality(Wanted(api.qs, api.resp.since))

\* The items are in non-increasing posted_at order.
NewestFirst(items) ==
    \A m, n \in 1..Len(items) : m < n => items[m].posted_at >= items[n].posted_at

C16_ItemsSatisfyFilters ==
    (api.pc = "answered" /\ api.resp.statusCode = 200) =>
        /\ api.resp.index \in {"GSICompanyPosted", "GSICountryPosted", "GSICategoryPosted"}
        /\ \A n \in 1..Len(api.resp.items) :
            LET it == api.resp.items[n]
            IN  /\ "company" \in DOMAIN api.qs => it.company = api.qs["company"]
                /\ it.category = lower(Get(api.qs, "category", "it"))
                /\ "country" \in DOMAIN api.qs => it.loc_country = Upper(api.qs["country"])
                /\ "remote" \in DOMAIN api.qs => it.remote = RemoteFlag(api.qs["remote"])
                /\ it.posted_at >= api.resp.since

\* A request with all four filters is answered with an item while the
\* partition it reads holds items that some filter rejects.
C16_Witness ==
    /\ api.pc = "answered"
    /\ api.resp.statusCode = 200
    /\ {"company", "category", "country", "remote"} \subseteq DOMAIN api.qs
    /\ api.resp.items # <<>>
    /\ \E k \in DOMAIN table :
        /\ k[1] = api.qs["company"]
        /\ table[k].remote # RemoteFlag(api.qs["remote"])
    /\ \E k \in DOMAIN table :
        /\ k[1] = api.qs["company"]
        /\ table[k].category # lower(api.qs["category"])

\* The text s is a number followed by the unit.
Relative(s, unit) ==
    /\ Len(s) >= 2
    /\ s[Len(s)] = unit
    /\ AllDigits(SubSeq(s, 1, Len(s) - 1))
Count(s) == DigitsVal(SubSeq(s, 1, Len(s) - 1))

\* Texts that are neither relative nor a date.
Unparsable ==
    {<<"x", "d">>, <<"2", "0", "2", "4", "-", "0", "2", "-", "3", "0">>}

\* C17: the window of a request read at time T starts at T - N*86400 for
\* since "Nd" and at T - N*3600 for since "Nh", at T - 30*86400 when since is
\* absent or cannot be parsed, and for since "2024-01-01" at the epoch second
\* of that date at 00:00 UTC; the answer holds only items posted at or after
\* the start of the window.
C17_SinceWindow ==
    (api.pc = "answered" /\ api.resp.statusCode = 200) =>
        LET since == Get(api.qs, "since", NotGivenText)
            T == api.t
        IN  /\ Relative(since, "d") => api.resp.since = T - Count(since) * 86400
            /\ Relative(since, "h") => api.resp.since = T - Count(since) * 3600
            /\ since = NotGivenText => api.resp.since = T - 30 * 86400
            /\ since \in Unparsable => api.resp.since = T - 30 * 86400
            /\ since = <<"2", "0", "2", "4", "-", "0", "1", "-", "0", "1">>
                => api.resp.since = 1704067200
            /\ \A n \in 1..Len(api.resp.items) : api.resp.items[n].posted_at >= api.resp.since

\* A request with since "2d" is answered with an item posted exactly two days
\* before, while the store holds an item of the same category posted one
\* second earlier.
C17_Witness ==
    /\ api.pc = "answered"
    /\ api.resp.statusCode = 200
    /\ "since" \in DOMAIN api.qs
    /\ api.qs["since"] = <<"2", "d">>
    /\ \E n \in 1..Len(api.resp.items) : api.resp.items[n].posted_at = api.t - 2 * Day
    /\ \E k \in DOMAIN table :
        /\ table[k].category = lower(Get(api.qs, "category", "it"))
        /\ table[k].posted_at = api.t - 2 * Day - 1

\* C18: for every limit a request carries the handler works with a page limit
\* inside [1, 200] (1 for a value below 1, 200 for a value above 200), with 50
\* when the request carries none, and no response holds more items than that
\* limit.
C18_LimitClamped ==
    api.pc = "answered" =>
        /\ api.resp.raised # "ValueError"
        /\ api.resp.limit \in 1..200
        /\ "limit" \notin DOMAIN api.qs => api.resp.limit = 50
        /\ Len(api.resp.items) <= api.resp.limit

\* The answer to the same request without its cursor.
Fresh == lambda_handler(Restrict(api.qs, DOMAIN api.qs \ {"cursor"}), api.t, TRUE)

\* C19: a cursor that is not one the handler issued (empty, not base64 or
\* not JSON, or JSON that is no start key) is ignored: where the request
\* without cursor is answered, the request with it gets status 200 and the
\* same first page, never an error.
C19_MalformedCursorIgnored ==
    (/\ api.pc = "answered"
     /\ api.pages = 1
     /\ api.cursor.kind \in {"empty", "garbage", "scalar"}
     /\ Fresh.statusCode = 200) =>
        /\ api.resp.statusCode = 200
        /\ api.resp = Fresh

-----------------------------------------------------------------------------
(* Flushes, finalize and the catalogue over runs *)

\* The step in which a flush of run r fails: batch_upsert_items raised.
FlushFails(r) ==
    run[r].pc = "fetch" /\ run[r].error # "flush" /\ run'[r].error = "flush"

\* C21: when a flush fails the run of that source goes on: the run stays in
\* process_company of the same source with its todo, so that the remaining
\* URLs are fetched, later chunks flushed and finalize_company called; and the
\* postings flushed before stay stored.
C21_FlushFailureContinues ==
    [][\A r \in Runs :
          FlushFails(r) =>
              /\ run'[r].pc \in {"fetch", "finalize"}
              /\ run'[r].name = run[r].name
              /\ run'[r].todo = run[r].todo
              /\ run'[r].discovered = run[r].discovered
              /\ \A k \in DOMAIN table : k \in DOMAIN table']_vars

\* The step is one of run r: the start of another run changes only r's
\* overlapped mark.
StepOf(r) == [run'[r] EXCEPT !.overlapped = run[r].overlapped] # run[r]

\* The step puts an item: a new key, or new attributes under a key.
Puts == \E k \in DOMAIN table' : k \notin DOMAIN table \/ table'[k] # table[k]

\* C22: within one run of one source finalize_company is called only after
\* the last flush has returned: when it is called every URL of todo has been
\* handled and the chunk is empty, the call puts nothing and deletes no URL
\* of todo, and from then on the run puts nothing for the source and never
\* goes back to fetching; a run puts items only from inside the fetch loop
\* and the flush after it.
C22_FinalizeAfterLastFlush ==
    [][\A r \in Runs :
          /\ (StepOf(r) /\ run[r].pc = "finalize")
                => /\ run[r].i = Len(run[r].todo)
                   /\ run[r].chunk = EmptyDict
                   /\ ~Puts
                   /\ \A u \in Range(run[r].todo) :
                         <<run[r].name, u>> \in DOMAIN table
                            => <<run[r].name, u>> \in DOMAIN table'
          /\ (StepOf(r) /\ run[r].pc \in {"finalize", "finalized"})
                => run'[r].pc # "fetch"
          /\ (StepOf(r) /\ run[r].pc = "finalized") => table' = table
          /\ (StepOf(r) /\ Puts) => run[r].pc = "fetch"]_vars

\* A run flushed a full chunk, then finalize_company deleted a posting that
\* was not discovered and kept the ones just stored.
C22_Witness ==
    \E r \in Runs :
        /\ run[r].pc = "finalized"
        /\ run[r].written >= chunk_upsert_size
        /\ run[r].existing \ Range(run[r].discovered) # {}
        /\ list_urls(run[r].name) = Range(run[r].todo)

\* The URLs for which run r has made a detail fetch for its current source.
FetchedUrls(r) == {run[r].todo[n] : n \in 1..run[r].i}

\* C23: the URLs for which a run makes a detail fetch are discovered URLs
\* that were not in the catalogue when the run listed it, none of them twice,
\* at most max_new_per_run of them when the cap is set, and all of
\* discovered - existing once the source is done when it is not.
C23_FetchOnlyNewCapped ==
    \A r \in Runs :
        run[r].pc \in {"fetch", "finalize", "finalized"} =>
            /\ FetchedUrls(r) \subseteq New(r)
            /\ FetchedUrls(r) \cap run[r].existing = {}
            /\ Cardinality(FetchedUrls(r)) = run[r].i
            /\ run[r].max_new_per_run # NoCap => run[r].i <= run[r].max_new_per_run[1]
            /\ (run[r].max_new_per_run = NoCap /\ Done(r)) => FetchedUrls(r) = New(r)

\* A capped run is done with a source that listed a stored URL and two new
\* ones: one fetch was made.
C23_Witness ==
    \E r \in Runs :
        /\ Done(r)
        /\ run[r].max_new_per_run # NoCap
        /\ run[r].existing \cap Range(run[r].discovered) # {}
        /\ Cardinality(New(r)) >= 2
        /\ Cardinality(FetchedUrls(r)) = 1

\* The URL is stored for the current source of run r, as an active posting.
StoredActive(r, u) ==
    /\ <<run[r].name, u>> \in DOMAIN table
    /\ table[<<run[r].name, u>>].active = 1

C25_RediscoveredIsTouched ==
    \A r \in Runs :
        Done(r) /\ Solo(r) =>
            \A u \in run[r].existing \cap Range(run[r].discovered) :
                /\ <<run[r].name, u>> \in DOMAIN table
                /\ table[<<run[r].name, u>>].last_seen_at >= run[r].lock_now

\* C26: for every source, the browser-backed ones included, a posting with no
\* country is never written: every stored posting has a non-empty
\* loc_country.
C26_StoredHaveCountry ==
    \A k \in DOMAIN table : table[k].loc_country # ""

\* C27: after an iteration of the fetch loop the chunk holds fewer than
\* chunk_upsert_size drafts, all of them validated and not yet flushed; when
\* finalize_company is called the chunk is empty and new_rows is the number
\* of validated drafts; each flush puts exactly the drafts of the chunk, none
\* of which was put by an earlier flush of the run; and after a run that no
\* other run overlapped the new postings stored are the validated drafts.
C27_ChunkBoundedAndFlushedOnce ==
    [][\A r \in Runs :
          /\ run'[r].pc = "fetch"
                => /\ Cardinality(DOMAIN run'[r].chunk) < chunk_upsert_size
                   /\ DOMAIN run'[r].chunk \subseteq run'[r].drafted
                   /\ run'[r].written + Cardinality(DOMAIN run'[r].chunk)
                         = Cardinality(run'[r].drafted)
          /\ run'[r].pc \in {"finalize", "finalized"}
                => /\ run'[r].chunk = EmptyDict
                   /\ run'[r].written = Cardinality(run'[r].drafted)
          /\ (StepOf(r) /\ Puts /\ run'[r].pc \in {"fetch", "finalize"})
                => LET put == {k \in DOMAIN table' :
                                  k \notin DOMAIN table \/ table'[k] # table[k]}
                   IN  /\ put = {<<run[r].name, u>> :
                                    u \in run'[r].drafted
                                        \ {v \in run[r].drafted : v \notin DOMAIN run[r].chunk}}
                       /\ run'[r].written = run[r].written + Cardinality(put)
          /\ (Done(r)' /\ Solo(r)')
                => list_urls_after(run'[r].name) \ run'[r].existing = run'[r].drafted]_vars

\* A run validated three drafts: a full chunk was flushed inside the loop and
\* the rest after it.
C27_Witness ==
    \E r \in Runs :
        /\ Done(r)
        /\ Cardinality(run[r].drafted) > chunk_upsert_size
        /\ run[r].written = Cardinality(run[r].drafted)
        /\ run[r].drafted \subseteq list_urls(run[r].name)

\* C28: release_lock removes a lease only of the run that calls it: while a
\* run is between its acquire_lock and its release_lock and its lease has not
\* expired, the lease record it wrote is in the store, whatever other runs
\* release meanwhile, so that no further run can acquire.
C28_ReleaseKeepsOthersLease ==
    \A r \in Runs :
        (Holding(r) /\ now < run[r].lock_now + env.lock_ttl_sec)
            => /\ lock = LockItem(run[r].lock_now)
               /\ ~LockCondition(lock, now)

\* C29: with a fixed discovered set, a cap of at least 1 and every store
\* request and fetch succeeding, repeated completed runs eventually store
\* every discovered URL whose page validates, whatever pages are rejected on
\* every run.
C29_EveryValidEventuallyStored ==
    <>(\A u \in env.site[Companies[1]] :
          env.verdict[u] = "ok" => <<Companies[1], u>> \in DOMAIN table)

\* The postings of the other sources are after the step what they were.
OthersKept(company) ==
    \A k \in DOMAIN table \cup DOMAIN table' :
        k[1] # company => (k \in DOMAIN table /\ k \in DOMAIN table' /\ table'[k] = table[k])

\* C30: while a run processes source X (listing the catalogue, flushing,
\* finalizing) every posting of another source stays as it is and so does the
\* lease record; only postings of X are written or deleted.
C30_OnlyOwnSourceTouched ==
    [][\A r \in Runs :
          /\ (StepOf(r) /\ run[r].pc = "loop") => (table' = table /\ lock' = lock)
          /\ (StepOf(r) /\ run[r].pc \in {"fetch", "finalize", "finalized"})
                => (OthersKept(run[r].name) /\ lock' = lock)]_vars

\* A run is done with a source for which it stored a posting and deleted
\* another, while postings of another source and the lease are in the store.
C30_Witness ==
    \E r \in Runs :
        /\ Done(r)
        /\ run[r].written >= 1
        /\ run[r].existing \ Range(run[r].discovered) # {}
        /\ \E k \in DOMAIN table : k[1] # run[r].name
        /\ lock = LockItem(run[r].lock_now)

====
